---- MODULE Spec2Model ----
(***************************************************************************)
(* Model of clubsandwich/xp_loader.py: the REXPaint ".xp" decoder.         *)
(* A byte string is a sequence of naturals in 0..255.  Offsets are         *)
(* 0-based as in the Python source; Slice(s, a, b) is Python's s[a:b].     *)
(***************************************************************************)
EXTENDS Integers, Sequences, FiniteSets

VARIABLES
    file_string,            \* argument of load_xp_string
    reverse_endian,         \* argument of load_xp_string
    pc,                     \* position of the call
    offset,                 \* load_xp_string: cursor into file_string
    version,                \* load_xp_string: decoded version
    layer_count,            \* load_xp_string: decoded layer count
    layers,                 \* load_xp_string: list of parsed layers
    current_largest_width,  \* load_xp_string: running maximum
    current_largest_height, \* load_xp_string: running maximum
    this_layer_width,       \* load_xp_string: peeked width
    this_layer_height,      \* load_xp_string: peeked height
    layer_data_size,        \* load_xp_string: size of the layer record
    layer_string,           \* _parse_layer: argument (the sub-buffer)
    l_offset,               \* _parse_layer: cursor into layer_string
    width,                  \* _parse_layer: re-read width
    height,                 \* _parse_layer: re-read height
    cells,                  \* _parse_layer: list of rows
    row,                    \* _parse_layer: row being built
    x,                      \* _parse_layer: outer loop index
    y,                      \* _parse_layer: inner loop index
    cell_data_raw,          \* _parse_layer: last 10-byte slice
    cell_data,              \* _parse_layer: last decoded cell
    first                   \* the caller's record of an earlier successful call

vars == <<file_string, reverse_endian, pc, offset, version, layer_count, layers,
          current_largest_width, current_largest_height, this_layer_width,
          this_layer_height, layer_data_size, layer_string, l_offset, width,
          height, cells, row, x, y, cell_data_raw, cell_data, first>>

----------------------------------------------------------------------------
(* Bounds of the explored inputs.                                          *)

\* Layers per encoded document.
MaxLayers == 2

\* Cells per encoded document, all layers together.
MaxCells == 4

\* Width and height of an encoded layer: a square layer fits the cell budget.
MaxDim == MaxCells \div 2

----------------------------------------------------------------------------
(* Field widths, module level constants of xp_loader.py.                   *)

version_bytes == 4

layer_count_bytes == 4

layer_width_bytes == 4

layer_height_bytes == 4

layer_keycode_bytes == 4

layer_fore_rgb_bytes == 3

layer_back_rgb_bytes == 3

layer_cell_bytes == layer_keycode_bytes + layer_fore_rgb_bytes + layer_back_rgb_bytes

transparent_cell_back_r == 255

transparent_cell_back_g == 0

transparent_cell_back_b == 255

----------------------------------------------------------------------------
(* Python primitives used by the decoder.                                  *)

Min(a, b) == IF a <= b THEN a ELSE b

\* Mutant: the size of the last layer seen instead of the largest.
Max_last(a, b) == b

Max(a, b) == IF a >= b THEN a ELSE b

\* Python slicing s[a:b] for 0 <= a <= b: clipped to the string, never an error.
Slice(s, a, b) == SubSeq(s, a + 1, Min(b, Len(s)))

\* Python s[::-1].
Reversed(s) == [i \in 1..Len(s) |-> s[Len(s) + 1 - i]]

\* base64.b16encode: two hexadecimal digits per byte, high nibble first.
b16encode(bts) ==
    [i \in 1..(2 * Len(bts)) |->
        IF i % 2 = 1 THEN bts[(i + 1) \div 2] \div 16 ELSE bts[i \div 2] % 16]

RECURSIVE int16(_)
\* int(digits, 16) on a non-empty digit string.
int16(digits) ==
    IF Len(digits) = 0 THEN 0
    ELSE 16 * int16(SubSeq(digits, 1, Len(digits) - 1)) + digits[Len(digits)]

\* The exception int() raises on an empty string, as a value no field can take.
ValueError == -1

\* int(base64.b16encode(bts), 16); the encoding of no bytes is the empty string.
_bytes_to_int(bts) ==
    IF Len(bts) = 0 THEN ValueError ELSE int16(b16encode(bts))

----------------------------------------------------------------------------
(* The decoder's pure parts.                                               *)

\* Mutant: the flag is ignored and the bytes are never reversed.
endian_int_unreversed(bts, rev) == _bytes_to_int(bts)

\* "if reverse_endian: f = f[::-1]" followed by "f = _bytes_to_int(f)".
endian_int(bts, rev) == _bytes_to_int(IF rev THEN Reversed(bts) ELSE bts)

\* Mutant: the background triple is read from the foreground's offsets.
_parse_individual_cell_fore(cell_string, rev) ==
    [keycode |-> endian_int(Slice(cell_string, 0, layer_keycode_bytes), rev),
     fore_r  |-> _bytes_to_int(Slice(cell_string, layer_keycode_bytes, layer_keycode_bytes + 1)),
     fore_g  |-> _bytes_to_int(Slice(cell_string, layer_keycode_bytes + 1, layer_keycode_bytes + 2)),
     fore_b  |-> _bytes_to_int(Slice(cell_string, layer_keycode_bytes + 2, layer_keycode_bytes + 3)),
     back_r  |-> _bytes_to_int(Slice(cell_string, layer_keycode_bytes, layer_keycode_bytes + 1)),
     back_g  |-> _bytes_to_int(Slice(cell_string, layer_keycode_bytes + 1, layer_keycode_bytes + 2)),
     back_b  |-> _bytes_to_int(Slice(cell_string, layer_keycode_bytes + 2, layer_keycode_bytes + 3))]

\* _parse_individual_cell: the returned dictionary; a field whose slice is
\* empty is ValueError, and then the call raises instead of returning.
_parse_individual_cell(cell_string, rev) ==
    [keycode |-> endian_int(Slice(cell_string, 0, layer_keycode_bytes), rev),
     fore_r  |-> _bytes_to_int(Slice(cell_string, layer_keycode_bytes, layer_keycode_bytes + 1)),
     fore_g  |-> _bytes_to_int(Slice(cell_string, layer_keycode_bytes + 1, layer_keycode_bytes + 2)),
     fore_b  |-> _bytes_to_int(Slice(cell_string, layer_keycode_bytes + 2, layer_keycode_bytes + 3)),
     back_r  |-> _bytes_to_int(Slice(cell_string, layer_keycode_bytes + 3, layer_keycode_bytes + 4)),
     back_g  |-> _bytes_to_int(Slice(cell_string, layer_keycode_bytes + 4, layer_keycode_bytes + 5)),
     back_b  |-> _bytes_to_int(Slice(cell_string, layer_keycode_bytes + 5, layer_keycode_bytes + 6))]

\* Mutant: only an empty keycode slice makes the call raise.
cell_raised_keycode(c) == c.keycode = ValueError

\* The call _parse_individual_cell raised: some int() got an empty string.
cell_raised(c) ==
    ValueError \in {c.keycode, c.fore_r, c.fore_g, c.fore_b, c.back_r, c.back_g, c.back_b}

\* Mutant: the 8 header bytes are left out of the record size.
layer_size_cells(w, h) == layer_cell_bytes * w * h

\* layer_data_size of load_xp_string.
layer_size(w, h) == layer_width_bytes + layer_height_bytes + (layer_cell_bytes * w * h)

\* Mutant: the cursor is not moved past the cell just read.
next_cell_offset_stuck(off) == off

\* "offset += layer_cell_bytes" of _parse_layer.
next_cell_offset(off) == off + layer_cell_bytes

\* The dictionary load_xp_string returns.
Document ==
    [version     |-> version,
     layer_count |-> layer_count,
     width       |-> current_largest_width,
     height      |-> current_largest_height,
     layer_data  |-> layers]

\* The dictionary _parse_layer returns.
Layer == [width |-> width, height |-> height, cells |-> cells]

NoCell == [keycode |-> ValueError]

NoCall == [called |-> FALSE]

----------------------------------------------------------------------------
(* Input buffers: encodings of small documents, cut short or followed by   *)
(* trailing bytes.                                                         *)

\* The 4 bytes of n in the byte order the flag selects.
EncodeInt(n, rev) ==
    LET le == <<n % 256, (n \div 256) % 256, (n \div 65536) % 256, (n \div 16777216) % 256>>
    IN IF rev THEN le ELSE Reversed(le)

\* Version fields: one palindromic, one not.
Versions == << <<1, 2, 2, 1>>, <<1, 0, 0, 0>> >>

\* Cell records: keycode bytes, foreground, background.
Palette ==
    << <<65, 0, 0, 0, 252, 252, 252, 0, 0, 0>>,
       <<66, 0, 0, 0, 252, 252, 252, 0, 0, 0>>,
       <<1, 2, 2, 1, 10, 20, 30, 255, 0, 255>>,
       <<0, 3, 1, 2, 255, 128, 0, 40, 50, 60>> >>

Trails == { <<>>, <<7>>, <<1, 0, 0, 0, 0, 0, 0, 1, 65>> }

RECURSIVE EncodeCells(_, _)
\* n cell records, the k-th one taken from the palette in rotation.
EncodeCells(n, k) ==
    IF n = 0 THEN <<>>
    ELSE Palette[(k % Len(Palette)) + 1] \o EncodeCells(n - 1, k + 1)

RECURSIVE EncodeLayers(_, _, _)
EncodeLayers(ds, rev, k) ==
    IF Len(ds) = 0 THEN <<>>
    ELSE EncodeInt(Head(ds)[1], rev) \o EncodeInt(Head(ds)[2], rev)
         \o EncodeCells(Head(ds)[1] * Head(ds)[2], k)
         \o EncodeLayers(Tail(ds), rev, k + Head(ds)[1] * Head(ds)[2])

Encode(v, ds, rev) ==
    Versions[v] \o EncodeInt(Len(ds), rev) \o EncodeLayers(ds, rev, v)

RECURSIVE TotalCells(_)
TotalCells(ds) == IF Len(ds) = 0 THEN 0 ELSE Head(ds)[1] * Head(ds)[2] + TotalCells(Tail(ds))

Dims == (0..MaxDim) \X (0..MaxDim)

Shapes == {ds \in UNION {[1..n -> Dims] : n \in 0..MaxLayers} : TotalCells(ds) <= MaxCells}

\* The version fields tried with a shape: all of them up to one layer, the
\* first one beyond.
VersionsOf(ds) == IF Len(ds) <= 1 THEN 1..Len(Versions) ELSE {1}

\* Every encoding, every prefix of one, and every encoding with a trail.
Inputs(rev) ==
    UNION {LET b == Encode(vd[1], vd[2], rev)
           IN {SubSeq(b, 1, n) : n \in 0..Len(b)} \cup {b \o t : t \in Trails}
           : vd \in {wd \in (1..Len(Versions)) \X Shapes : wd[1] \in VersionsOf(wd[2])}}

----------------------------------------------------------------------------
(* The call, step by step.                                                 *)

\* The locals of a call before its first statement.
Fresh ==
    /\ pc = "header"
    /\ offset = 0
    /\ version = 0
    /\ layer_count = 0
    /\ layers = <<>>
    /\ current_largest_width = 0
    /\ current_largest_height = 0
    /\ this_layer_width = 0
    /\ this_layer_height = 0
    /\ layer_data_size = 0
    /\ layer_string = <<>>
    /\ l_offset = 0
    /\ width = 0
    /\ height = 0
    /\ cells = <<>>
    /\ row = <<>>
    /\ x = 0
    /\ y = 0
    /\ cell_data_raw = <<>>
    /\ cell_data = NoCell

Init ==
    /\ reverse_endian \in BOOLEAN
    /\ file_string \in Inputs(reverse_endian)
    /\ Fresh
    /\ first = NoCall

\* Mutant: the layer loop stops one iteration early.
more_layers_short == Len(layers) + 1 < layer_count

\* for layer in range(layer_count): another iteration follows.
more_layers == Len(layers) < layer_count

\* for x in range(width): another iteration follows.
more_rows == x < width

\* Mutant: the inner loop runs over the width.
more_cells_width == y < width

\* for y in range(height): another iteration follows.
more_cells == y < height

layer_locals == <<layer_string, l_offset, width, height, cells, row, x, y,
                  cell_data_raw, cell_data>>

framer_locals == <<this_layer_width, this_layer_height, layer_data_size>>

\* load_xp_string up to the layer loop: version and layer count.
ReadHeader ==
    /\ pc = "header"
    /\ LET v == endian_int(Slice(file_string, 0, version_bytes), reverse_endian)
           n == endian_int(Slice(file_string, version_bytes,
                                 version_bytes + layer_count_bytes), reverse_endian)
       IN IF v = ValueError \/ n = ValueError
          THEN /\ pc' = "raised"
               /\ UNCHANGED <<offset, version, layer_count>>
          ELSE /\ pc' = "loop"
               /\ offset' = version_bytes + layer_count_bytes
               /\ version' = v
               /\ layer_count' = n
    /\ layers' = <<>>
    /\ current_largest_width' = 0
    /\ current_largest_height' = 0
    /\ UNCHANGED <<file_string, reverse_endian, framer_locals, layer_locals, first>>

\* One iteration of the layer loop up to the call of _parse_layer: the
\* lookahead, the running maxima, the record size and the slice.
FrameLayer ==
    /\ pc = "loop"
    /\ more_layers
    /\ LET w == endian_int(Slice(file_string, offset, offset + layer_width_bytes),
                           reverse_endian)
           h == endian_int(Slice(file_string, offset + layer_width_bytes,
                                 offset + layer_width_bytes + layer_height_bytes),
                           reverse_endian)
       IN IF w = ValueError \/ h = ValueError
          THEN /\ pc' = "raised"
               /\ UNCHANGED <<framer_locals, current_largest_width,
                              current_largest_height, layer_string>>
          ELSE /\ pc' = "layer"
               /\ this_layer_width' = w
               /\ this_layer_height' = h
               /\ current_largest_width' = Max(current_largest_width, w)
               /\ current_largest_height' = Max(current_largest_height, h)
               /\ layer_data_size' = layer_size(w, h)
               /\ layer_string' = Slice(file_string, offset, offset + layer_size(w, h))
    /\ UNCHANGED <<file_string, reverse_endian, offset, version, layer_count, layers,
                   l_offset, width, height, cells, row, x, y, cell_data_raw,
                   cell_data, first>>

\* _parse_layer up to the cell loops: width and height re-read.
ParseLayerHeader ==
    /\ pc = "layer"
    /\ LET w == endian_int(Slice(layer_string, 0, layer_width_bytes), reverse_endian)
           h == endian_int(Slice(layer_string, layer_width_bytes,
                                 layer_width_bytes + layer_height_bytes), reverse_endian)
       IN IF w = ValueError \/ h = ValueError
          THEN /\ pc' = "raised"
               /\ UNCHANGED <<l_offset, width, height, cells, x>>
          ELSE /\ pc' = "rows"
               /\ l_offset' = layer_width_bytes + layer_height_bytes
               /\ width' = w
               /\ height' = h
               /\ cells' = <<>>
               /\ x' = 0
    /\ UNCHANGED <<file_string, reverse_endian, offset, version, layer_count, layers,
                   current_largest_width, current_largest_height, framer_locals,
                   layer_string, row, y, cell_data_raw, cell_data, first>>

\* for x in range(width): row = []
BeginRow ==
    /\ pc = "rows"
    /\ more_rows
    /\ pc' = "cells"
    /\ row' = <<>>
    /\ y' = 0
    /\ UNCHANGED <<file_string, reverse_endian, offset, version, layer_count, layers,
                   current_largest_width, current_largest_height, framer_locals,
                   layer_string, l_offset, width, height, cells, x, cell_data_raw,
                   cell_data, first>>

\* for y in range(height): the body of the inner loop.
ParseCell ==
    /\ pc = "cells"
    /\ more_cells
    /\ LET raw == Slice(layer_string, l_offset, l_offset + layer_cell_bytes)
           c == _parse_individual_cell(raw, reverse_endian)
       IN /\ cell_data_raw' = raw
          /\ IF cell_raised(c)
             THEN /\ pc' = "raised"
                  /\ UNCHANGED <<cell_data, row, l_offset, y>>
             ELSE /\ pc' = "cells"
                  /\ cell_data' = c
                  /\ row' = Append(row, c)
                  /\ l_offset' = next_cell_offset(l_offset)
                  /\ y' = y + 1
    /\ UNCHANGED <<file_string, reverse_endian, offset, version, layer_count, layers,
                   current_largest_width, current_largest_height, framer_locals,
                   layer_string, width, height, cells, x, first>>

\* cells.append(row) at the end of the inner loop.
EndRow ==
    /\ pc = "cells"
    /\ ~more_cells
    /\ pc' = "rows"
    /\ cells' = Append(cells, row)
    /\ x' = x + 1
    /\ UNCHANGED <<file_string, reverse_endian, offset, version, layer_count, layers,
                   current_largest_width, current_largest_height, framer_locals,
                   layer_string, l_offset, width, height, row, y, cell_data_raw,
                   cell_data, first>>

\* _parse_layer returns; load_xp_string appends the layer and advances.
EndLayer ==
    /\ pc = "rows"
    /\ ~more_rows
    /\ pc' = "loop"
    /\ layers' = Append(layers, Layer)
    /\ offset' = offset + layer_data_size
    /\ UNCHANGED <<file_string, reverse_endian, version, layer_count,
                   current_largest_width, current_largest_height, framer_locals,
                   layer_locals, first>>

\* Mutant: bytes left after the last layer record are an error.
Return_strict ==
    /\ pc = "loop"
    /\ ~more_layers
    /\ pc' = IF offset = Len(file_string) THEN "done" ELSE "raised"
    /\ UNCHANGED <<file_string, reverse_endian, offset, version, layer_count, layers,
                   current_largest_width, current_largest_height, framer_locals,
                   layer_locals, first>>

\* The layer loop is over: load_xp_string returns Document.
Return ==
    /\ pc = "loop"
    /\ ~more_layers
    /\ pc' = "done"
    /\ UNCHANGED <<file_string, reverse_endian, offset, version, layer_count, layers,
                   current_largest_width, current_largest_height, framer_locals,
                   layer_locals, first>>

\* Buffers a caller may pass next: b with what follows its first n bytes
\* removed or replaced, and b without its last byte.
Variants(b, n) ==
    {SubSeq(b, 1, Len(b) - 1)}
    \cup (IF Len(b) >= n THEN {SubSeq(b, 1, n) \o t : t \in Trails} ELSE {})

\* The caller, after a successful call, decodes a second buffer with the
\* same flag.
CallAgain ==
    /\ pc = "done"
    /\ first = NoCall
    /\ first' = [called |-> TRUE, file_string |-> file_string, offset |-> offset,
                 document |-> Document]
    /\ file_string' \in (Variants(file_string, offset) \ {file_string})
    /\ pc' = "header"
    /\ offset' = 0
    /\ version' = 0
    /\ layer_count' = 0
    /\ layers' = <<>>
    /\ current_largest_width' = 0
    /\ current_largest_height' = 0
    /\ this_layer_width' = 0
    /\ this_layer_height' = 0
    /\ layer_data_size' = 0
    /\ layer_string' = <<>>
    /\ l_offset' = 0
    /\ width' = 0
    /\ height' = 0
    /\ cells' = <<>>
    /\ row' = <<>>
    /\ x' = 0
    /\ y' = 0
    /\ cell_data_raw' = <<>>
    /\ cell_data' = NoCell
    /\ UNCHANGED reverse_endian

Next ==
    \/ ReadHeader
    \/ FrameLayer
    \/ ParseLayerHeader
    \/ BeginRow
    \/ ParseCell
    \/ EndRow
    \/ EndLayer
    \/ Return
    \/ CallAgain

Spec == Init /\ [][Next]_vars

----------------------------------------------------------------------------
(* Reference values, computed from the buffer by position.                 *)

RECURSIVE SumOver(_, _)
\* f[1] + ... + f[n]
SumOver(f, n) == IF n = 0 THEN 0 ELSE f[n] + SumOver(f, n - 1)

RECURSIVE LittleEndian(_)
\* The bytes b as an unsigned little-endian number.
LittleEndian(b) == IF Len(b) = 0 THEN 0 ELSE b[1] + 256 * LittleEndian(Tail(b))

RECURSIVE BigEndian(_)
\* The bytes b as an unsigned big-endian number.
BigEndian(b) ==
    IF Len(b) = 0 THEN 0 ELSE 256 * BigEndian(SubSeq(b, 1, Len(b) - 1)) + b[Len(b)]

\* The value of a field in the byte order the flag selects.
RefInt(b, rev) == IF rev THEN LittleEndian(b) ELSE BigEndian(b)

\* The offset of the i-th returned layer's record (i from 1), from the sizes
\* of the layers returned before it.
RecordStart(ls, i) ==
    8 + SumOver([j \in 1..(i - 1) |-> 8 + 10 * ls[j].width * ls[j].height], i - 1)

SetMax(S) == CHOOSE m \in S : \A n \in S : m >= n

Returned == pc = "done"

----------------------------------------------------------------------------
(* C1: a returned document's layer_count is the value of the layer-count   *)
(* field at bytes [4,8) in the selected byte order, and layer_data holds   *)
(* exactly layer_count layers, the i-th one carrying the width and height  *)
(* of the i-th layer record of the buffer.                                 *)
C1_LayerCount ==
    Returned =>
        /\ Document.layer_count = RefInt(Slice(file_string, 4, 8), reverse_endian)
        /\ Len(Document.layer_data) = Document.layer_count
        /\ \A i \in 1..Len(layers) :
              LET s == RecordStart(layers, i)
              IN /\ layers[i].width = RefInt(Slice(file_string, s, s + 4), reverse_endian)
                 /\ layers[i].height = RefInt(Slice(file_string, s + 4, s + 8), reverse_endian)

C1_Witness ==
    /\ Returned
    /\ Len(file_string) >= 8
    /\ layer_count = 2
    /\ layers[1].width # layers[2].width

(* C2: every layer of a returned document has width rows of height cells,  *)
(* also when the width or the height is 0.                                 *)
C2_GridShape ==
    Returned =>
        \A i \in 1..Len(layers) :
            /\ Len(layers[i].cells) = layers[i].width
            /\ \A c \in 1..Len(layers[i].cells) :
                  Len(layers[i].cells[c]) = layers[i].height

C2_Witness ==
    /\ Returned
    /\ \E i \in 1..Len(layers) : layers[i].width = 0 /\ layers[i].height > 0
    /\ \E i \in 1..Len(layers) : layers[i].width > 0 /\ layers[i].height = 0

(* C3: a returned document's width and height are the largest layer width  *)
(* and the largest layer height, each taken on its own, and 0 without      *)
(* layers; an 8-byte buffer with a zero layer count decodes to the empty   *)
(* document whatever its version.                                          *)
C3_DocumentSize ==
    /\ Returned =>
          /\ Document.width = SetMax({0} \cup {layers[i].width : i \in 1..Len(layers)})
          /\ Document.height = SetMax({0} \cup {layers[i].height : i \in 1..Len(layers)})
          /\ layer_count = 0 => Document.width = 0 /\ Document.height = 0
    /\ (Len(file_string) = 8 /\ SubSeq(file_string, 5, 8) = <<0, 0, 0, 0>>) =>
          /\ pc # "raised"
          /\ Returned =>
                /\ Document.layer_data = <<>>
                /\ Document.width = 0
                /\ Document.height = 0
                /\ Document.version = RefInt(SubSeq(file_string, 1, 4), reverse_endian)

C3_Witness ==
    /\ Returned
    /\ Len(layers) = 2
    /\ layers[1].width > layers[2].width
    /\ layers[2].height > layers[1].height

\* The decode of one complete 10-byte cell record, by position.
RefCell(b, rev) ==
    [keycode |-> RefInt(SubSeq(b, 1, 4), rev),
     fore_r |-> b[5], fore_g |-> b[6], fore_b |-> b[7],
     back_r |-> b[8], back_g |-> b[9], back_b |-> b[10]]

\* The layer count written in buf.
HeaderCount(buf, rev) == RefInt(Slice(buf, 4, 8), rev)

\* The size of the layer record whose header is at offset s of buf.
RecordSize(buf, rev, s) ==
    8 + 10 * RefInt(Slice(buf, s, s + 4), rev) * RefInt(Slice(buf, s + 4, s + 8), rev)

RECURSIVE CutFrom(_, _, _, _)
\* One of the next n layer records of buf, the first of them at offset s, has
\* its 8-byte header in buf and the end of its cell records beyond buf.
CutFrom(buf, rev, s, n) ==
    /\ n > 0
    /\ s + 8 <= Len(buf)
    /\ \/ Len(buf) < s + RecordSize(buf, rev, s)
       \/ CutFrom(buf, rev, s + RecordSize(buf, rev, s), n - 1)

\* buf ends inside the cell region of one of its layers: the layer's 8-byte
\* header is complete and its width*height cell records are not.
CutInCells(buf, rev) ==
    /\ Len(buf) >= 8
    /\ CutFrom(buf, rev, 8, HeaderCount(buf, rev))

RECURSIVE HeadersFrom(_, _, _, _)
\* The next n layer records of buf, the first of them at offset s, have
\* their 8-byte headers in buf.
HeadersFrom(buf, rev, s, n) ==
    \/ n = 0
    \/ /\ s + 8 <= Len(buf)
       /\ HeadersFrom(buf, rev, s + RecordSize(buf, rev, s), n - 1)

\* Every fixed-size field the decoder reads from buf is there in full.
FieldsComplete(buf, rev) ==
    /\ Len(buf) >= 8
    /\ HeadersFrom(buf, rev, 8, HeaderCount(buf, rev))

(* C4: a buffer that ends inside the cell region of a layer, on a cell     *)
(* boundary or inside a cell, is never decoded to a document: the call is  *)
(* still running or has raised, and it raises no later than the cell the   *)
(* buffer ends in.                                                         *)
C4_TruncatedCells ==
    CutInCells(file_string, reverse_endian) =>
        /\ pc \in {"header", "loop", "layer", "rows", "cells", "raised"}
        /\ RecordStart(layers, Len(layers) + 1) <= Len(file_string)
        /\ pc \in {"rows", "cells"} => offset + l_offset <= Len(file_string)

C4_Witness ==
    /\ pc = "raised"
    /\ CutInCells(file_string, reverse_endian)
    /\ Len(layers) = 1
    /\ Len(cell_data_raw) \in 1..9
    /\ x = 1

(* C5: a buffer that ends before one of the 4-byte fields the decoder      *)
(* reads (version, layer_count, a layer's width or height) is never        *)
(* decoded to a document.                                                  *)
C5_ShortFieldRaises ==
    Returned => FieldsComplete(file_string, reverse_endian)

DecodedFields ==
    (IF pc \notin {"header", "raised"} /\ Len(file_string) >= 8
     THEN {<<SubSeq(file_string, 1, 4), version>>,
           <<SubSeq(file_string, 5, 8), layer_count>>}
     ELSE {})
    \cup
    (IF pc \in {"layer", "rows", "cells"} /\ offset + 8 <= Len(file_string)
     THEN {<<SubSeq(file_string, offset + 1, offset + 4), this_layer_width>>,
           <<SubSeq(file_string, offset + 5, offset + 8), this_layer_height>>}
     ELSE {})
    \cup
    (IF pc \in {"rows", "cells"} /\ Len(layer_string) >= 8
     THEN {<<SubSeq(layer_string, 1, 4), width>>,
           <<SubSeq(layer_string, 5, 8), height>>}
     ELSE {})
    \cup
    (IF pc # "raised" /\ cell_data # NoCell /\ Len(cell_data_raw) = 10
     THEN {<<SubSeq(cell_data_raw, 1, 4), cell_data.keycode>>}
     ELSE {})

(* C7: every complete 4-byte field (version, layer_count, width, height,   *)
(* keycode) is decoded as an unsigned little-endian number when            *)
(* reverse_endian is true and as a big-endian one when it is false; the    *)
(* value under one setting is the value of the byte-reversed field under   *)
(* the other, and the two settings differ exactly on non-palindromic       *)
(* fields.                                                                 *)
C7_Endianness ==
    \A f \in DecodedFields :
        /\ f[2] = (IF reverse_endian THEN LittleEndian(f[1]) ELSE BigEndian(f[1]))
        /\ endian_int(Reversed(f[1]), ~reverse_endian) = f[2]
        /\ (endian_int(f[1], ~reverse_endian) # f[2]) <=> (f[1] # Reversed(f[1]))

C7_Witness ==
    /\ pc = "cells"
    /\ width > height /\ height > 0
    /\ Len(cell_data_raw) = 10
    /\ <<SubSeq(cell_data_raw, 1, 4), cell_data.keycode>> \in DecodedFields
    /\ <<SubSeq(layer_string, 1, 4), width>> \in DecodedFields
    /\ <<SubSeq(file_string, 1, 4), version>> \in DecodedFields
    /\ SubSeq(file_string, 1, 4) # Reversed(SubSeq(file_string, 1, 4))
    /\ SubSeq(cell_data_raw, 1, 4) = Reversed(SubSeq(cell_data_raw, 1, 4))
    /\ cell_data.keycode > 0

(* C8: from a complete 10-byte record _parse_individual_cell returns the   *)
(* keycode of bytes [0,4) in the selected byte order and the bytes at      *)
(* offsets 4..9 as fore_r, fore_g, fore_b, back_r, back_g, back_b, each in *)
(* 0..255 and whatever the flag; no record is rejected.                    *)
C8_CellFields ==
    Len(cell_data_raw) = 10 =>
        /\ \A rev \in BOOLEAN :
              LET c == _parse_individual_cell(cell_data_raw, rev)
              IN /\ ~cell_raised(c)
                 /\ c = RefCell(cell_data_raw, rev)
                 /\ {c.fore_r, c.fore_g, c.fore_b, c.back_r, c.back_g, c.back_b} \subseteq 0..255
        /\ (pc # "raised" /\ cell_data # NoCell) =>
              cell_data = RefCell(cell_data_raw, reverse_endian)

C8_Witness ==
    /\ pc = "cells"
    /\ Len(cell_data_raw) = 10
    /\ cell_data # NoCell
    /\ <<cell_data.back_r, cell_data.back_g, cell_data.back_b>>
         = <<transparent_cell_back_r, transparent_cell_back_g, transparent_cell_back_b>>
    /\ row # <<>>
    /\ row[Len(row)] = cell_data

(* C9: while the layer loop runs, the cursor is 8 plus the sizes           *)
(* 8 + 10*width*height of the layers parsed so far; the sub-buffer handed  *)
(* to _parse_layer is the buffer from the cursor over the size of the      *)
(* layer at the cursor, clipped to the buffer; and the width and height    *)
(* _parse_layer reads from it are the ones the framer peeked.              *)
C9_Cursor ==
    /\ (pc \in {"loop", "layer", "rows", "cells", "done"} \/ (pc = "raised" /\ offset > 0)) =>
          offset = RecordStart(layers, Len(layers) + 1)
    /\ pc \in {"layer", "rows", "cells"} =>
          /\ layer_data_size = 8 + 10 * this_layer_width * this_layer_height
          /\ layer_string =
               SubSeq(file_string, offset + 1,
                      Min(offset + 8 + 10 * this_layer_width * this_layer_height,
                          Len(file_string)))
    /\ pc \in {"rows", "cells"} =>
          /\ width = this_layer_width
          /\ height = this_layer_height

C9_Witness ==
    /\ pc = "cells"
    /\ Len(layers) = 1
    /\ layers[1].width * layers[1].height > 0
    /\ width * height > 0
    /\ offset + layer_data_size <= Len(file_string)

(* C10: once a call has returned with its cursor at n, a call with the     *)
(* same flag on a buffer with the same first n bytes does not raise and    *)
(* returns the same document, whatever follows those bytes.                *)
C10_TrailingBytes ==
    (first.called /\ Slice(file_string, 0, first.offset)
                       = Slice(first.file_string, 0, first.offset)) =>
        /\ pc # "raised"
        /\ Returned => Document = first.document /\ offset = first.offset

C10_Witness ==
    /\ first.called
    /\ Returned
    /\ Slice(file_string, 0, first.offset) = Slice(first.file_string, 0, first.offset)
    /\ Len(file_string) > offset
    /\ Len(first.file_string) = offset
    /\ Len(layers) = 2
    /\ layers[2].cells # <<>>

====
